---------------------------- MODULE Spec2Model ----------------------------
(***************************************************************************)
(* A model of the two utilities of osint-liar/public-packages:             *)
(*   build_index.py   the index builder (process_json_files, main)         *)
(*   convert_repo.py  the key normalizer (to_camel, camelize_keys_deep,    *)
(*                    main)                                                *)
(* Texts (file contents, keys, file names, URLs) are sequences of          *)
(* one-character strings, so that parsing, serialisation and the casing    *)
(* rule are computed character by character as the code computes them.     *)
(***************************************************************************)
EXTENDS Integers, Sequences, FiniteSets, TLC

VARIABLES
    key,        \* to_camel: the key under conversion
    camel,      \* to_camel: the result of to_camel(key)
    kphase,     \* to_camel: "off" | "input" | "applied"
    jval,       \* camelize_keys_deep: the JSON value a file was written from
    jtext,      \* the text dump_json_pretty wrote for jval
    jcamel,     \* camelize_keys_deep(parse_json(jtext))
    jnew,       \* new_text of main's loop body for original_text = jtext
    jphase,     \* "off" | "build" | "written" | "converted"
    hdesc,      \* fingerprint: content[0] of a descriptor, a dict
    hother,     \* fingerprint: hdesc with the one field hfield changed
    hfield,     \* fingerprint: the field that differs between the two
    hshaA,      \* fingerprint: sha256 computed for hdesc
    hshaB,      \* fingerprint: sha256 computed for hother
    hphase,     \* "off" | "build" | "changed" | "hashed"
    fs,         \* the directory tree: path |-> text of the file at that path
    ipc,        \* index builder: "off" | "idle" | "done" | "crashed", how the last run of main ended
    index,      \* index builder: the list process_json_files returned
    iruns,      \* index builder: the number of runs of main started
    istart,     \* history: the tree when the current run started
    iorder,     \* history: the order in which os.walk yields the files
    npc,        \* normalizer: "off" | "idle" | "done", whether a run of main has ended
    rc,         \* normalizer: what the last run of main returned
    total,      \* normalizer: the counters of the last run's summary
    changed,
    skipped,
    failed,
    dryRun,     \* normalizer: args.dry_run of the last run
    noBackup,   \* normalizer: args.no_backup of the last run
    rootKind,   \* normalizer: what the repo_root of the last run named
    nsteps,     \* the number of runs of the normalizer and edits so far
    nstart,     \* history: the tree when the last run started
    nlog,       \* history: file |-> the counter the last run's loop put it
                \* in and the call that raised for it
    nbacked,    \* history: file |-> its text when the tool made its .bak
    nfirst,     \* history: file |-> its text before the first run that rewrote it
    nplain      \* history: every run so far was backup-enabled and no dry run

camelVars == <<key, camel, kphase>>
deepVars == <<jval, jtext, jcamel, jnew, jphase>>
hashVars == <<hdesc, hother, hfield, hshaA, hshaB, hphase>>
idxVars == <<ipc, index, iruns, istart, iorder>>
normVars == <<npc, rc, total, changed, skipped, failed, dryRun, noBackup,
              rootKind, nsteps, nstart, nlog, nbacked, nfirst, nplain>>
vars == <<key, camel, kphase, jval, jtext, jcamel, jnew, jphase,
          hdesc, hother, hfield, hshaA, hshaB, hphase,
          fs, ipc, index, iruns, istart, iorder,
          npc, rc, total, changed, skipped, failed, dryRun, noBackup,
          rootKind, nsteps, nstart, nlog, nbacked, nfirst, nplain>>

(***************************************************************************)
(* Characters and Python's str methods                                     *)
(***************************************************************************)
LowerLetters ==
    << "a","b","c","d","e","f","g","h","i","j","k","l","m",
       "n","o","p","q","r","s","t","u","v","w","x","y","z" >>

UpperLetters ==
    << "A","B","C","D","E","F","G","H","I","J","K","L","M",
       "N","O","P","Q","R","S","T","U","V","W","X","Y","Z" >>

Digits == {"0","1","2","3","4","5","6","7","8","9"}

Range(f) == { f[i] : i \in DOMAIN f }

\* Python's whitespace (str.strip(), regex \s) over the characters of the model
Whitespace == {" ", "\t", "\n", "\r"}

LowerSet == Range(LowerLetters)
UpperSet == Range(UpperLetters)

\* the character class [a-zA-Z0-9] of CAMEL_RE
IsAlnum(c) == c \in LowerSet \/ c \in UpperSet \/ c \in Digits

\* the character class [_\-\s] of CAMEL_RE
IsSepChar(c) == c \in {"_", "-"} \/ c \in Whitespace

\* str.lower() on one character
LowerChar(c) ==
    IF c \in UpperSet
    THEN LowerLetters[CHOOSE i \in DOMAIN UpperLetters : UpperLetters[i] = c]
    ELSE c

\* str.upper() on one character
UpperChar(c) ==
    IF c \in LowerSet
    THEN UpperLetters[CHOOSE i \in DOMAIN LowerLetters : LowerLetters[i] = c]
    ELSE c

\* str.lower()
Lower(s) == [i \in DOMAIN s |-> LowerChar(s[i])]

\* `c in s`
Contains(s, c) == \E i \in DOMAIN s : s[i] = c

\* s[from:] (1-based `from`)
Drop(s, from) == SubSeq(s, from, Len(s))

\* str.strip(): whitespace removed at both ends
Strip(s) ==
    LET keep == { i \in DOMAIN s : s[i] \notin Whitespace }
    IN  IF keep = {} THEN <<>>
        ELSE SubSeq(s, CHOOSE i \in keep : \A j \in keep : i <= j,
                       CHOOSE i \in keep : \A j \in keep : j <= i)

\* s.endswith(suffix)
EndsWith(s, suffix) ==
    /\ Len(suffix) <= Len(s)
    /\ SubSeq(s, Len(s) - Len(suffix) + 1, Len(s)) = suffix

(***************************************************************************)
(* convert_repo.py: to_camel                                               *)
(***************************************************************************)
\* the length of the longest run of [_\-\s] at the start of s
RECURSIVE SepRunLen(_)
SepRunLen(s) ==
    IF s # <<>> /\ IsSepChar(s[1]) THEN 1 + SepRunLen(Tail(s)) ELSE 0

\* CAMEL_RE.sub(lambda m: m.group(1).upper(), s): scanning left to right,
\* a run of separators followed by an alphanumeric is replaced by that
\* character upper-cased; a run with no alphanumeric after it does not match
\* and stays (the greedy + backtracks to shorter runs, none followed by an
\* alphanumeric).
RECURSIVE CAMEL_RE_sub(_)
CAMEL_RE_sub(s) ==
    IF s = <<>> THEN <<>>
    ELSE LET n == SepRunLen(s)
         IN  IF n > 0 /\ n < Len(s) /\ IsAlnum(s[n + 1])
             THEN <<UpperChar(s[n + 1])>> \o CAMEL_RE_sub(Drop(s, n + 2))
             ELSE <<s[1]>> \o CAMEL_RE_sub(Tail(s))

\* a faulty to_camel: PascalCase instead of camelCase when there is no separator
to_camel_pascal(s) ==
    IF s = <<>> THEN s
    ELSE IF Contains(s, "_") \/ Contains(s, "-") \/ Contains(s, " ")
         THEN CAMEL_RE_sub(Lower(Strip(s)))
         ELSE <<UpperChar(s[1])>> \o Tail(s)

to_camel(s) ==
    IF s = <<>> THEN s
    ELSE IF Contains(s, "_") \/ Contains(s, "-") \/ Contains(s, " ")
         THEN CAMEL_RE_sub(Lower(Strip(s)))
         ELSE <<LowerChar(s[1])>> \o Tail(s)

(***************************************************************************)
(* Specification SpecCamel: to_camel applied to every key over KeyAlphabet *)
(* of length at most MaxKeyLen, and to the spec's example keys.            *)
(***************************************************************************)
MaxKeyLen == 3

KeyAlphabet == {"a", "U", "1", "_", "-", " ", "\t"}

K_user_id == <<"u","s","e","r","_","i","d">>
K_userId == <<"u","s","e","r","I","d">>
K_SomeFieldName == <<"S","o","m","e","-","F","i","e","l","d"," ","N","a","m","e">>
K_someFieldName == <<"s","o","m","e","F","i","e","l","d","N","a","m","e">>
K_UUID == <<"U","U","I","D">>
K_uUID == <<"u","U","I","D">>

ExampleKeys == {K_user_id, K_SomeFieldName, K_UUID}

CamelInit ==
    /\ key \in {<<>>} \cup ExampleKeys
    /\ camel = <<>>
    /\ kphase = "input"

CamelOff ==
    /\ key = <<>>
    /\ camel = <<>>
    /\ kphase = "off"

\* the caller types one more character of the key
KeyAppend ==
    /\ kphase = "input"
    /\ Len(key) < MaxKeyLen
    /\ \E c \in KeyAlphabet : key' = Append(key, c)
    /\ UNCHANGED <<camel, kphase>>
    /\ UNCHANGED <<deepVars, hashVars, fs, idxVars, normVars>>

\* ck = to_camel(str(k))
KeyConvert ==
    /\ kphase = "input"
    /\ camel' = to_camel(key)
    /\ kphase' = "applied"
    /\ UNCHANGED key
    /\ UNCHANGED <<deepVars, hashVars, fs, idxVars, normVars>>

CamelNext == KeyAppend \/ KeyConvert

\* --- C10 ---------------------------------------------------------------
\* the casing rule as the claim states it: every separator deleted, the
\* character immediately following a separator upper-cased
RECURSIVE DeleteSepUpperNext(_, _)
DeleteSepUpperNext(s, afterSep) ==
    IF s = <<>> THEN <<>>
    ELSE IF IsSepChar(s[1]) THEN DeleteSepUpperNext(Tail(s), TRUE)
         ELSE <<IF afterSep THEN UpperChar(s[1]) ELSE s[1]>>
                  \o DeleteSepUpperNext(Tail(s), FALSE)

ClaimedCamel(s) ==
    IF \E i \in DOMAIN s : IsSepChar(s[i])
    THEN DeleteSepUpperNext(Lower(s), FALSE)
    ELSE IF s = <<>> THEN s ELSE <<LowerChar(s[1])>> \o Tail(s)

\* C10: for every key over the alphabet, to_camel(key) is the lower-cased key
\* with every separator deleted and the character after each separator
\* upper-cased when the key holds '_', '-' or whitespace, and the key with
\* its first character lower-cased otherwise.
C10_CasingRule == kphase = "applied" => camel = ClaimedCamel(key)

\* the spec's three examples do follow the rule
C10_Examples ==
    (kphase = "applied" /\ key \in ExampleKeys) => camel = ClaimedCamel(key)

(***************************************************************************)
(* JSON values, as json.loads builds them and json.dumps writes them.      *)
(* A value is a record [t, v]: t is the Python type and v a sequence:      *)
(*   null  <<>>            bool  <<"true">> or <<"false">>                 *)
(*   num   its decimal digits (an int)      str   its characters           *)
(*   arr   its elements    obj   its members <<key, value>>, in insertion  *)
(*                               order, keys distinct (a Python dict)      *)
(***************************************************************************)
JNull == [t |-> "null", v |-> <<>>]
JTrue == [t |-> "bool", v |-> <<"true">>]
JFalse == [t |-> "bool", v |-> <<"false">>]
JNum(digits) == [t |-> "num", v |-> digits]
JStr(chars) == [t |-> "str", v |-> chars]
JArr(elems) == [t |-> "arr", v |-> elems]
JObj(members) == [t |-> "obj", v |-> members]

\* d[k] = x on a Python dict: an existing key keeps its place and gets the
\* new value, a new key is added at the end
DictSet(d, k, x) ==
    IF \E i \in DOMAIN d : d[i][1] = k
    THEN [i \in DOMAIN d |-> IF d[i][1] = k THEN <<k, x>> ELSE d[i]]
    ELSE Append(d, <<k, x>>)

\* d.get(k): the value, or None
DictGet(d, k) ==
    IF \E i \in DOMAIN d : d[i][1] = k
    THEN d[CHOOSE i \in DOMAIN d : d[i][1] = k][2]
    ELSE JNull

(***************************************************************************)
(* json.loads: a recursive-descent parser. A result is [ok, val, pos]:     *)
(* pos is the position after the value. The grammar is JSON's, with        *)
(* numbers restricted to integers and string escapes to \" \\ \n \r \t     *)
(* (the texts of the model hold no others).                                *)
(***************************************************************************)
ParseFail == [ok |-> FALSE, val |-> JNull, pos |-> 0]
ParseOk(x, p) == [ok |-> TRUE, val |-> x, pos |-> p]

\* the first position from i on that holds no whitespace (Len(t) + 1 when
\* there is none)
SkipWs(t, i) ==
    IF \E j \in i..Len(t) : t[j] \notin Whitespace
    THEN CHOOSE j \in i..Len(t) :
            /\ t[j] \notin Whitespace
            /\ \A k \in i..(j - 1) : t[k] \in Whitespace
    ELSE IF i <= Len(t) THEN Len(t) + 1 ELSE i

\* t[i..] starts with the word w
StartsAt(t, i, w) ==
    /\ i + Len(w) - 1 <= Len(t)
    /\ SubSeq(t, i, i + Len(w) - 1) = w

Unescape(c) ==
    CASE c = "n" -> "\n"
      [] c = "r" -> "\r"
      [] c = "t" -> "\t"
      [] OTHER -> c

\* the number of backslashes that stand, in a row, right before position j
\* and not before position i
BackslashRun(t, i, j) ==
    LET others == { m \in i..(j - 1) : t[m] # "\\" }
    IN  IF others = {} THEN j - i
        ELSE j - 1 - (CHOOSE m \in others : \A n \in others : n <= m)

\* position j is taken by an escape: the character after a backslash that
\* is not itself escaped
IsEscaped(t, i, j) ==
    /\ j > i
    /\ t[j - 1] = "\\"
    /\ BackslashRun(t, i, j) % 2 = 1

\* the characters of t[lo..hi], a string literal's inside that starts at
\* position i, with the escapes resolved
RECURSIVE UnescapeRange(_, _, _, _)
UnescapeRange(t, i, lo, hi) ==
    IF lo > hi THEN <<>>
    ELSE IF lo = hi
         THEN IF IsEscaped(t, i, lo) THEN <<Unescape(t[lo])>>
              ELSE IF t[lo] = "\\" THEN <<>>
              ELSE <<t[lo]>>
    ELSE UnescapeRange(t, i, lo, (lo + hi) \div 2)
           \o UnescapeRange(t, i, ((lo + hi) \div 2) + 1, hi)

\* the string literal whose opening quote is right before position i: it
\* runs to the first quote that is not escaped; an escape other than
\* \" \\ \n \r \t, or a raw control character, is an error
ScanString(t, i, acc) ==
    IF \E j \in i..Len(t) : t[j] = "\"" /\ ~IsEscaped(t, i, j)
    THEN LET close == CHOOSE j \in i..Len(t) :
                         /\ t[j] = "\"" /\ ~IsEscaped(t, i, j)
                         /\ \A k \in i..(j - 1) : ~(t[k] = "\"" /\ ~IsEscaped(t, i, k))
         IN  IF \A k \in i..(close - 1) :
                   /\ t[k] \notin {"\n", "\r", "\t"}
                   /\ IsEscaped(t, i, k) => t[k] \in {"\"", "\\", "n", "r", "t"}
             THEN ParseOk(JStr(acc \o UnescapeRange(t, i, i, close - 1)), close + 1)
             ELSE ParseFail
    ELSE ParseFail

RECURSIVE ScanDigits(_, _)
ScanDigits(t, i) ==
    IF i <= Len(t) /\ t[i] \in Digits THEN ScanDigits(t, i + 1) ELSE i

\* an integer: -?(0|[1-9][0-9]*); int("-0") is 0
ScanNumber(t, i) ==
    LET d == IF t[i] = "-" THEN i + 1 ELSE i
        e == IF d <= Len(t) /\ t[d] = "0" THEN d + 1 ELSE ScanDigits(t, d)
        digits == SubSeq(t, d, e - 1)
    IN  IF e = d THEN ParseFail
        ELSE IF t[i] = "-" /\ digits # <<"0">>
             THEN ParseOk(JNum(<<"-">> \o digits), e)
             ELSE ParseOk(JNum(digits), e)

RECURSIVE ParseValue(_, _)
RECURSIVE ParseElements(_, _, _)
RECURSIVE ParseMembers(_, _, _)

\* the value that starts at position i (no whitespace before it)
ParseValue(t, i) ==
    IF i > Len(t) THEN ParseFail
    ELSE CASE t[i] = "{" ->
                LET j == SkipWs(t, i + 1)
                IN  IF j <= Len(t) /\ t[j] = "}" THEN ParseOk(JObj(<<>>), j + 1)
                    ELSE ParseMembers(t, j, <<>>)
           [] t[i] = "[" ->
                LET j == SkipWs(t, i + 1)
                IN  IF j <= Len(t) /\ t[j] = "]" THEN ParseOk(JArr(<<>>), j + 1)
                    ELSE ParseElements(t, j, <<>>)
           [] t[i] = "\"" -> ScanString(t, i + 1, <<>>)
           [] t[i] \in Digits \cup {"-"} -> ScanNumber(t, i)
           [] StartsAt(t, i, <<"n","u","l","l">>) -> ParseOk(JNull, i + 4)
           [] StartsAt(t, i, <<"t","r","u","e">>) -> ParseOk(JTrue, i + 4)
           [] StartsAt(t, i, <<"f","a","l","s","e">>) -> ParseOk(JFalse, i + 5)
           [] OTHER -> ParseFail

\* the elements of an array from position i, acc the elements so far
ParseElements(t, i, acc) ==
    LET e == ParseValue(t, i)
    IN  IF ~e.ok THEN ParseFail
        ELSE LET j == SkipWs(t, e.pos)
             IN  IF j > Len(t) THEN ParseFail
                 ELSE IF t[j] = "," THEN ParseElements(t, SkipWs(t, j + 1), Append(acc, e.val))
                 ELSE IF t[j] = "]" THEN ParseOk(JArr(Append(acc, e.val)), j + 1)
                 ELSE ParseFail

\* the members of an object from position i, acc the dict so far: a key
\* that repeats overwrites the earlier value (Python's dict)
ParseMembers(t, i, acc) ==
    IF i > Len(t) \/ t[i] # "\"" THEN ParseFail
    ELSE LET k == ScanString(t, i + 1, <<>>)
         IN  IF ~k.ok THEN ParseFail
             ELSE LET c == SkipWs(t, k.pos)
                  IN  IF c > Len(t) \/ t[c] # ":" THEN ParseFail
                      ELSE LET e == ParseValue(t, SkipWs(t, c + 1))
                           IN  IF ~e.ok THEN ParseFail
                               ELSE LET j == SkipWs(t, e.pos)
                                        d == DictSet(acc, k.val.v, e.val)
                                    IN  IF j > Len(t) THEN ParseFail
                                        ELSE IF t[j] = "," THEN ParseMembers(t, SkipWs(t, j + 1), d)
                                        ELSE IF t[j] = "}" THEN ParseOk(JObj(d), j + 1)
                                        ELSE ParseFail

\* json.loads(text): [ok, val]; ok = FALSE is json.JSONDecodeError
parse_json(text) ==
    LET r == ParseValue(text, SkipWs(text, 1))
    IN  IF r.ok /\ SkipWs(text, r.pos) = Len(text) + 1
        THEN [ok |-> TRUE, val |-> r.val]
        ELSE [ok |-> FALSE, val |-> JNull]

(***************************************************************************)
(* json.dumps(data, ensure_ascii=False, indent=n)                          *)
(***************************************************************************)
Spaces(n) == [i \in 1..n |-> " "]

\* "\n" and the indentation of nesting level `level`
NewlineIndent(indent, level) == <<"\n">> \o Spaces(indent * level)

EscapeChar(c) ==
    CASE c = "\"" -> <<"\\", "\"">>
      [] c = "\\" -> <<"\\", "\\">>
      [] c = "\n" -> <<"\\", "n">>
      [] c = "\r" -> <<"\\", "r">>
      [] c = "\t" -> <<"\\", "t">>
      [] OTHER -> <<c>>

\* every character of s escaped (the halves of s one after the other)
RECURSIVE EscapeChars(_)
EscapeChars(s) ==
    IF s = <<>> THEN <<>>
    ELSE IF Len(s) = 1 THEN EscapeChar(s[1])
    ELSE EscapeChars(SubSeq(s, 1, Len(s) \div 2))
           \o EscapeChars(SubSeq(s, (Len(s) \div 2) + 1, Len(s)))

\* a string literal
Quote(s) == <<"\"">> \o EscapeChars(s) \o <<"\"">>

RECURSIVE Dumps(_, _, _)
RECURSIVE DumpItems(_, _, _, _)

\* the items of a list or dict, each on its own line at `level`
DumpItems(items, isObj, indent, level) ==
    IF items = <<>> THEN <<>>
    ELSE LET one == IF isObj
                    THEN Quote(items[1][1]) \o <<":", " ">> \o Dumps(items[1][2], indent, level)
                    ELSE Dumps(items[1], indent, level)
         IN  NewlineIndent(indent, level) \o one
               \o (IF Len(items) > 1 THEN <<",">> ELSE <<>>)
               \o DumpItems(Tail(items), isObj, indent, level)

Dumps(x, indent, level) ==
    CASE x.t = "null" -> <<"n","u","l","l">>
      [] x.t = "bool" -> IF x = JTrue THEN <<"t","r","u","e">> ELSE <<"f","a","l","s","e">>
      [] x.t = "num" -> x.v
      [] x.t = "str" -> Quote(x.v)
      [] x.t = "arr" ->
           IF x.v = <<>> THEN <<"[", "]">>
           ELSE <<"[">> \o DumpItems(x.v, FALSE, indent, level + 1)
                  \o NewlineIndent(indent, level) \o <<"]">>
      [] x.t = "obj" ->
           IF x.v = <<>> THEN <<"{", "}">>
           ELSE <<"{">> \o DumpItems(x.v, TRUE, indent, level + 1)
                  \o NewlineIndent(indent, level) \o <<"}">>

\* the indent of dump_json_pretty
PrettyIndent == 2

dump_json_pretty(data) == Dumps(data, PrettyIndent, 0) \o <<"\n">>

(***************************************************************************)
(* convert_repo.py: camelize_keys_deep                                     *)
(***************************************************************************)
RECURSIVE camelize_keys_deep(_)
RECURSIVE CamelizeMembers(_, _)

\* the loop `for k, v in val.items(): out[to_camel(str(k))] = camelize_keys_deep(v)`
CamelizeMembers(members, out) ==
    IF members = <<>> THEN out
    ELSE CamelizeMembers(Tail(members),
             DictSet(out, to_camel(members[1][1]), camelize_keys_deep(members[1][2])))

camelize_keys_deep(val) ==
    CASE val.t = "arr" -> JArr([i \in DOMAIN val.v |-> camelize_keys_deep(val.v[i])])
      [] val.t = "obj" -> JObj(CamelizeMembers(val.v, <<>>))
      [] OTHER -> val

(***************************************************************************)
(* Specification SpecDeep: a JSON value of at most MaxNodes nodes is built,*)
(* written by dump_json_pretty, and the written text goes through the body *)
(* of main's loop (parse_json, camelize_keys_deep, dump_json_pretty).      *)
(***************************************************************************)
MaxNodes == 4

RECURSIVE Nodes(_)
RECURSIVE NodesOfSeq(_, _)
NodesOfSeq(s, isObj) ==
    IF s = <<>> THEN 0
    ELSE Nodes(IF isObj THEN s[1][2] ELSE s[1]) + NodesOfSeq(Tail(s), isObj)

\* the number of values in x, x included
Nodes(x) ==
    IF x.t \in {"arr", "obj"} THEN 1 + NodesOfSeq(x.v, x.t = "obj") ELSE 1

K_Id == <<"I","d">>
K_a == <<"a">>

DeepKeys == {K_userId, K_user_id, K_Id, K_a}

DeepLeaves == {JNull, JTrue, JNum(<<"1">>), JStr(<<"x">>)}

DeepInit ==
    /\ jval \in DeepLeaves \cup {JArr(<<>>), JObj(<<>>)}
    /\ jtext = <<>>
    /\ jcamel = JNull
    /\ jnew = <<>>
    /\ jphase = "build"

DeepOff ==
    /\ jval = JNull
    /\ jtext = <<>>
    /\ jcamel = JNull
    /\ jnew = <<>>
    /\ jphase = "off"

\* the value becomes the only element of a list
JWrapArr ==
    /\ jphase = "build"
    /\ Nodes(jval) < MaxNodes
    /\ jval' = JArr(<<jval>>)
    /\ UNCHANGED <<jtext, jcamel, jnew, jphase>>
    /\ UNCHANGED <<camelVars, hashVars, fs, idxVars, normVars>>

\* the value becomes the only member of a dict
JWrapObj ==
    /\ jphase = "build"
    /\ Nodes(jval) < MaxNodes
    /\ \E k \in DeepKeys : jval' = JObj(<< <<k, jval>> >>)
    /\ UNCHANGED <<jtext, jcamel, jnew, jphase>>
    /\ UNCHANGED <<camelVars, hashVars, fs, idxVars, normVars>>

\* a list gets one more element
JAppendElem ==
    /\ jphase = "build"
    /\ jval.t = "arr"
    /\ Nodes(jval) < MaxNodes
    /\ \E x \in DeepLeaves : jval' = JArr(Append(jval.v, x))
    /\ UNCHANGED <<jtext, jcamel, jnew, jphase>>
    /\ UNCHANGED <<camelVars, hashVars, fs, idxVars, normVars>>

\* a dict gets one more member, under a key it does not hold
JAddMember ==
    /\ jphase = "build"
    /\ jval.t = "obj"
    /\ Nodes(jval) < MaxNodes
    /\ \E k \in DeepKeys, x \in DeepLeaves :
          /\ \A i \in DOMAIN jval.v : jval.v[i][1] # k
          /\ jval' = JObj(Append(jval.v, <<k, x>>))
    /\ UNCHANGED <<jtext, jcamel, jnew, jphase>>
    /\ UNCHANGED <<camelVars, hashVars, fs, idxVars, normVars>>

\* the file is written: src.write_text(dump_json_pretty(...))
JWrite ==
    /\ jphase = "build"
    /\ jtext' = dump_json_pretty(jval)
    /\ jphase' = "written"
    /\ UNCHANGED <<jval, jcamel, jnew>>
    /\ UNCHANGED <<camelVars, hashVars, fs, idxVars, normVars>>

\* the body of main's loop up to the comparison, on original_text = jtext
JConvert ==
    /\ jphase = "written"
    /\ LET parsed == parse_json(jtext)
       IN  /\ parsed.ok
           /\ jcamel' = camelize_keys_deep(parsed.val)
           /\ jnew' = dump_json_pretty(camelize_keys_deep(parsed.val))
    /\ jphase' = "converted"
    /\ UNCHANGED <<jval, jtext>>
    /\ UNCHANGED <<camelVars, hashVars, fs, idxVars, normVars>>

DeepNext ==
    JWrapArr \/ JWrapObj \/ JAppendElem \/ JAddMember \/ JWrite \/ JConvert

\* what dump_json_pretty writes, parse_json reads back
DeepRoundTrip ==
    jphase \in {"written", "converted"} =>
        parse_json(jtext) = [ok |-> TRUE, val |-> jval]

\* --- C6 ----------------------------------------------------------------
\* a key that is camelCase already: no '_', '-' or whitespace, and a first
\* character that is not upper-case
IsCamelKey(k) ==
    /\ \A i \in DOMAIN k : ~IsSepChar(k[i])
    /\ k # <<>> => k[1] \notin UpperSet

RECURSIVE AllKeysCamel(_)
AllKeysCamel(x) ==
    CASE x.t = "arr" -> \A i \in DOMAIN x.v : AllKeysCamel(x.v[i])
      [] x.t = "obj" -> \A i \in DOMAIN x.v : IsCamelKey(x.v[i][1]) /\ AllKeysCamel(x.v[i][2])
      [] OTHER -> TRUE

\* C6: for a file the tool wrote from content whose keys are all camelCase,
\* the next run computes a new_text equal to the file's text (the file is
\* skipped, not rewritten).
C6_Idempotent ==
    (jphase = "converted" /\ AllKeysCamel(jval)) => jnew = jtext

\* a converted file with a nested dict and camelCase keys only
C6_Witness ==
    /\ jphase = "converted"
    /\ AllKeysCamel(jval)
    /\ jval.t = "arr"
    /\ jval.v # <<>>
    /\ jval.v[1].t = "obj"
    /\ jval.v[1].v # <<>>
    /\ jnew = jtext

\* --- C7 ----------------------------------------------------------------
\* b is a with every key camelized and nothing else changed: same lists in
\* the same order, same members in the same order, same leaves
RECURSIVE SameValues(_, _)
SameValues(a, b) ==
    /\ a.t = b.t
    /\ CASE a.t = "arr" ->
              /\ Len(a.v) = Len(b.v)
              /\ \A i \in DOMAIN a.v : SameValues(a.v[i], b.v[i])
         [] a.t = "obj" ->
              /\ Len(a.v) = Len(b.v)
              /\ \A i \in DOMAIN a.v :
                    /\ b.v[i][1] = to_camel(a.v[i][1])
                    /\ SameValues(a.v[i][2], b.v[i][2])
         [] OTHER -> a = b

\* C7: camelize_keys_deep keeps every list, every member and every leaf of
\* its input; only the keys change. No dict loses a member.
C7_PreservesValues ==
    jphase = "converted" => SameValues(jval, jcamel)

(***************************************************************************)
(* Python's str() and repr() of a JSON value, and sorted() of strings      *)
(***************************************************************************)
RECURSIVE PyRepr(_)
RECURSIVE PyReprItems(_, _)

\* the items of a list or dict, separated by ", "
PyReprItems(items, isObj) ==
    IF items = <<>> THEN <<>>
    ELSE (IF isObj
          THEN PyRepr(JStr(items[1][1])) \o <<":", " ">> \o PyRepr(items[1][2])
          ELSE PyRepr(items[1]))
         \o (IF Len(items) > 1 THEN <<",", " ">> ELSE <<>>)
         \o PyReprItems(Tail(items), isObj)

\* repr(x); a string (of the model: no quote, backslash or control
\* character in it) is written in single quotes
PyRepr(x) ==
    CASE x.t = "null" -> <<"N","o","n","e">>
      [] x.t = "bool" -> IF x = JTrue THEN <<"T","r","u","e">> ELSE <<"F","a","l","s","e">>
      [] x.t = "num" -> x.v
      [] x.t = "str" -> <<"'">> \o x.v \o <<"'">>
      [] x.t = "arr" -> <<"[">> \o PyReprItems(x.v, FALSE) \o <<"]">>
      [] x.t = "obj" -> <<"{">> \o PyReprItems(x.v, TRUE) \o <<"}">>

\* str(x): a string is itself, anything else its repr
PyStr(x) == IF x.t = "str" THEN x.v ELSE PyRepr(x)

\* the characters of the model in code-point order
CodePoints ==
    << "\t", "\n", "\r", " ", "\"", "#", "'", ",", "-", ".", "/",
       "0","1","2","3","4","5","6","7","8","9", ":",
       "A","B","C","D","E","F","G","H","I","J","K","L","M",
       "N","O","P","Q","R","S","T","U","V","W","X","Y","Z",
       "[", "\\", "]", "_",
       "a","b","c","d","e","f","g","h","i","j","k","l","m",
       "n","o","p","q","r","s","t","u","v","w","x","y","z",
       "{", "}" >>

\* ord(c), as a table
OrdTable ==
    [c \in Range(CodePoints) |-> CHOOSE i \in DOMAIN CodePoints : CodePoints[i] = c]

Ord(c) == OrdTable[c]

\* a < b for two strings, as Python compares them
RECURSIVE StrLess(_, _)
StrLess(a, b) ==
    IF b = <<>> THEN FALSE
    ELSE IF a = <<>> THEN TRUE
    ELSE IF a[1] = b[1] THEN StrLess(Tail(a), Tail(b))
    ELSE Ord(a[1]) < Ord(b[1])

\* sorted(S) for a set S of strings
RECURSIVE Sorted(_)
Sorted(S) ==
    IF S = {} THEN <<>>
    ELSE LET m == CHOOSE x \in S : \A y \in S \ {x} : StrLess(x, y)
         IN  <<m>> \o Sorted(S \ {m})

(***************************************************************************)
(* build_index.py: calculate_sha256 and the fields of a descriptor         *)
(***************************************************************************)
F_Uuid == <<"U","u","i","d">>
F_Label == <<"L","a","b","e","l">>
F_Version == <<"V","e","r","s","i","o","n">>
F_Description == <<"D","e","s","c","r","i","p","t","i","o","n">>
F_UpdatedOn == <<"U","p","d","a","t","e","d","O","n">>
F_Script == <<"S","c","r","i","p","t">>
F_FieldMapping == <<"F","i","e","l","d","M","a","p","p","i","n","g">>
F_Headers == <<"H","e","a","d","e","r","s">>

\* the keys of fields_dict, in the order of the dict display
FieldNames ==
    << F_Uuid, F_Label, F_Version, F_Description, F_UpdatedOn,
       F_Script, F_FieldMapping, F_Headers >>

\* a faulty FieldsDict: the last field is left out of the fingerprint
FieldsDictShort(desc) ==
    [i \in 1..(Len(FieldNames) - 1) |-> <<FieldNames[i], DictGet(desc, FieldNames[i])>>]

\* fields_dict = {"Uuid": content[0].get("Uuid"), ...}: every key is
\* present, with None for a field the descriptor lacks
FieldsDict(desc) ==
    [i \in DOMAIN FieldNames |-> <<FieldNames[i], DictGet(desc, FieldNames[i])>>]

\* hashlib.sha256 of the bytes fed to it, as a hex digest: modelled as an
\* injective function of the bytes (the bytes themselves behind a tag)
Sha256Hex(bytes) == <<"#">> \o bytes

\* the bytes the loop over sorted_keys feeds to the hash
RECURSIVE HashedBytes(_, _)
HashedBytes(sorted_keys, fields_dict) ==
    IF sorted_keys = <<>> THEN <<>>
    ELSE PyStr(DictGet(fields_dict, sorted_keys[1]))
           \o HashedBytes(Tail(sorted_keys), fields_dict)

calculate_sha256(fields_dict) ==
    Sha256Hex(HashedBytes(Sorted({fields_dict[i][1] : i \in DOMAIN fields_dict}),
                          fields_dict))

(***************************************************************************)
(* Specification SpecHash: a descriptor of at most MaxFields fields is     *)
(* built, one of its fields is changed, and both are fingerprinted.        *)
(***************************************************************************)
MaxFields == 2

F_Extra == <<"E","x","t","r","a">>

V_A == JStr(<<"A">>)
V_1 == JNum(<<"1">>)

HashBuildValues == {V_A, V_1}

\* null, "", "1", "None", "A", 1, true
HashChangeValues ==
    {JNull, JStr(<<>>), JStr(<<"1">>), JStr(<<"N","o","n","e">>), V_A, V_1, JTrue}

\* the fields a descriptor is built from, and the fields that are changed
HashBuildFields == {F_Uuid, F_Version, F_Extra}
HashFields == Range(FieldNames) \cup {F_Extra}

HashInit ==
    /\ hdesc = <<>>
    /\ hother = <<>>
    /\ hfield = <<>>
    /\ hshaA = <<>>
    /\ hshaB = <<>>
    /\ hphase = "build"

HashOff ==
    /\ hdesc = <<>>
    /\ hother = <<>>
    /\ hfield = <<>>
    /\ hshaA = <<>>
    /\ hshaB = <<>>
    /\ hphase = "off"

\* the author gives the descriptor one more field
HSetField ==
    /\ hphase = "build"
    /\ Len(hdesc) < MaxFields
    /\ \E f \in HashBuildFields, x \in HashBuildValues :
          /\ \A i \in DOMAIN hdesc : hdesc[i][1] # f
          /\ hdesc' = Append(hdesc, <<f, x>>)
    /\ UNCHANGED <<hother, hfield, hshaA, hshaB, hphase>>
    /\ UNCHANGED <<camelVars, deepVars, fs, idxVars, normVars>>

\* the author changes the value of one field (absent and null are the same
\* value, None, to content[0].get)
HChangeField ==
    /\ hphase = "build"
    /\ \E f \in HashFields, x \in HashChangeValues :
          /\ DictGet(hdesc, f) # x
          /\ hother' = DictSet(hdesc, f, x)
          /\ hfield' = f
    /\ hphase' = "changed"
    /\ UNCHANGED <<hdesc, hshaA, hshaB>>
    /\ UNCHANGED <<camelVars, deepVars, fs, idxVars, normVars>>

\* sha256 = calculate_sha256(file_path, fields_dict), for both descriptors
HCompute ==
    /\ hphase = "changed"
    /\ hshaA' = calculate_sha256(FieldsDict(hdesc))
    /\ hshaB' = calculate_sha256(FieldsDict(hother))
    /\ hphase' = "hashed"
    /\ UNCHANGED <<hdesc, hother, hfield>>
    /\ UNCHANGED <<camelVars, deepVars, fs, idxVars, normVars>>

HashNext == HSetField \/ HChangeField \/ HCompute

\* --- C3 ----------------------------------------------------------------
\* C3: two descriptors that agree on every recognized field but one, whose
\* value differs, get different fingerprints.
C3_Sensitive ==
    (hphase = "hashed" /\ hfield \in Range(FieldNames)) => hshaA # hshaB

\* C3 as amended: two descriptors that agree on every recognized field but
\* one get different fingerprints exactly when the two values of that field
\* have different string forms (None for an absent or null field).
C3_SensitiveStr ==
    (hphase = "hashed" /\ hfield \in Range(FieldNames)) =>
        ((hshaA # hshaB) <=>
            (PyStr(DictGet(hdesc, hfield)) # PyStr(DictGet(hother, hfield))))

\* a recognized field went from the number 1 to the string "A" and the
\* fingerprints differ
C3_Witness ==
    /\ hphase = "hashed"
    /\ hfield \in Range(FieldNames)
    /\ DictGet(hdesc, hfield) = V_1
    /\ DictGet(hother, hfield) = V_A
    /\ hshaA # hshaB

\* a change of a field the fingerprint does not read leaves it alone
C3_IgnoredField ==
    (hphase = "hashed" /\ hfield = F_Extra) => hshaA = hshaB

\* --- C9 ----------------------------------------------------------------
\* the bytes the claim states: the string forms of the present (non-null)
\* fields only, in sorted field-name order
RECURSIVE ClaimedBytes(_, _)
ClaimedBytes(sorted_keys, desc) ==
    IF sorted_keys = <<>> THEN <<>>
    ELSE (IF DictGet(desc, sorted_keys[1]) = JNull THEN <<>>
          ELSE PyStr(DictGet(desc, sorted_keys[1])))
         \o ClaimedBytes(Tail(sorted_keys), desc)

\* C9: a recognized field that is missing or null contributes the empty
\* string to the hashed bytes; so a descriptor without a field and the same
\* descriptor with that field set to "" have the same fingerprint.
C9_AbsentIsEmpty ==
    hphase = "hashed" =>
        /\ hshaA = Sha256Hex(ClaimedBytes(Sorted(Range(FieldNames)), hdesc))
        /\ (DictGet(hdesc, hfield) = JNull /\ DictGet(hother, hfield) = JStr(<<>>))
              => hshaA = hshaB

(***************************************************************************)
(* Files. A path is <<dir, name>>: the directory under the root ("" for    *)
(* the root itself) and the file's name.                                   *)
(***************************************************************************)
Ext_json == <<".","j","s","o","n">>
Ext_bak == <<".","b","a","k">>

\* the position of the last "." of a file name that starts a suffix (a
\* leading dot does not), or 0
LastDot(name) ==
    LET dots == { i \in DOMAIN name : name[i] = "." /\ i > 1 }
    IN  IF dots = {} THEN 0 ELSE CHOOSE i \in dots : \A j \in dots : j <= i

\* Path(name).stem
Stem(name) ==
    IF LastDot(name) = 0 THEN name ELSE SubSeq(name, 1, LastDot(name) - 1)

\* Path(name).suffix
Suffix(name) ==
    IF LastDot(name) = 0 THEN <<>> ELSE Drop(name, LastDot(name))

\* os.path.relpath(file_path, directory).replace(os.sep, "/")
RelativePath(path) ==
    IF path[1] = <<>> THEN path[2] ELSE path[1] \o <<"/">> \o path[2]

\* every enumeration of the set S
RECURSIVE Enumerations(_)
Enumerations(S) ==
    IF S = {} THEN {<<>>}
    ELSE UNION { { <<x>> \o rest : rest \in Enumerations(S \ {x}) } : x \in S }

\* the orders in which os.walk (top-down) can yield the files of a tree:
\* the files of the root first, the files of one directory together, the
\* order inside a directory being the listing's
WalkOrders(paths) ==
    { f \in Enumerations(paths) :
        /\ \A i, j \in DOMAIN f : (f[i][1] = <<>> /\ f[j][1] # <<>>) => i < j
        /\ \A i, j, k \in DOMAIN f :
              (i < j /\ j < k /\ f[i][1] = f[k][1]) => f[j][1] = f[i][1] }

(***************************************************************************)
(* build_index.py: process_json_files and main                             *)
(***************************************************************************)
E_Name == <<"N","a","m","e">>
E_Sha256 == <<"S","h","a","2","5","6">>
E_Url == <<"U","r","l">>
E_Type == <<"T","y","p","e">>
DiscoveryPlugin ==
    <<"D","i","s","c","o","v","e","r","y","P","l","u","g","i","n">>

\* base_url of main
BaseUrl ==
    <<"h","t","t","p","s",":","/","/","o","s","i","n","t","l","i","a","r",
      ".","c","o","m","/">>

\* the indent of json.dump(index, f, indent=4)
IndexIndent == 4

N_index_json == <<"i","n","d","e","x">> \o Ext_json

\* output_file = os.path.join(input_directory, "index.json")
IndexPath == << <<>>, N_index_json >>

\* url = f"{base_url}/{relative_path}"
UrlOf(path) == BaseUrl \o <<"/">> \o RelativePath(path)

\* content[0].get(...) raises unless content is a non-empty list whose first
\* element is a dict (IndexError, KeyError, TypeError, AttributeError)
ExtractRaises(content) ==
    ~(content.t = "arr" /\ content.v # <<>> /\ content.v[1].t = "obj")

\* the dict appended to index for the file at path, with parsed content
IndexEntry(path, content) ==
    LET d == content.v[1].v
    IN  JObj(<< <<E_Name, JStr(Stem(path[2]))>>,
                <<F_Uuid, DictGet(d, F_Uuid)>>,
                <<F_Label, DictGet(d, F_Label)>>,
                <<F_Version, DictGet(d, F_Version)>>,
                <<F_Description, DictGet(d, F_Description)>>,
                <<F_UpdatedOn, DictGet(d, F_UpdatedOn)>>,
                <<E_Sha256, JStr(calculate_sha256(FieldsDict(d)))>>,
                <<E_Url, JStr(UrlOf(path))>>,
                <<E_Type, JStr(DiscoveryPlugin)>> >>)

\* a faulty AfterDecodeError: `break` in place of `continue`
AfterDecodeErrorBreak(rest) == <<>>

\* except json.JSONDecodeError: ... continue -- the files still to visit
\* after a file that does not parse
AfterDecodeError(rest) == rest

\* json.load of every *.json file of the tree, as <<path, [ok, val]>>
\* pairs: what the loop reads, whatever the order it visits the files in
LoadAll(tree) ==
    { <<p, parse_json(tree[p])>> : p \in { q \in DOMAIN tree : EndsWith(q[2], Ext_json) } }

\* the loops of process_json_files over the files os.walk yields, in the
\* order `order`, loaded holding what json.load gives for each: [raised,
\* index]. raised = TRUE is an exception nothing catches (content[0].get(...)
\* on something that is no list of dicts).
RECURSIVE ProcessFiles(_, _, _)
ProcessFiles(loaded, order, acc) ==
    IF order = <<>> THEN [raised |-> FALSE, index |-> acc]
    ELSE IF ~EndsWith(Head(order)[2], Ext_json)
         THEN ProcessFiles(loaded, Tail(order), acc)
    ELSE LET content == (CHOOSE d \in loaded : d[1] = Head(order))[2]
         IN  IF ~content.ok
             THEN ProcessFiles(loaded, AfterDecodeError(Tail(order)), acc)
             ELSE IF ExtractRaises(content.val)
             THEN [raised |-> TRUE, index |-> acc]
             ELSE ProcessFiles(loaded, Tail(order),
                               Append(acc, IndexEntry(Head(order), content.val)))

MaxIndexRuns == 2

\* the descriptors and other files the authors keep in the tree
N_a_json == <<"a">> \o Ext_json
N_b_json == <<"b">> \o Ext_json
N_c_json == <<"c">> \o Ext_json
N_notes_txt == <<"n","o","t","e","s",".","t","x","t">>
D_plugins == <<"p","l","u","g","i","n","s">>

DescriptorPaths ==
    { << <<>>, N_a_json >>, << D_plugins, N_b_json >>, << D_plugins, N_c_json >> }
NotesPath == << <<>>, N_notes_txt >>

Descriptor1 ==
    JArr(<< JObj(<< <<F_Uuid, JStr(<<"x">>)>>, <<F_Label, V_A>>,
                    <<F_Version, JStr(<<"1",".","0">>)>> >>) >>)

Descriptor2 ==
    JArr(<< JObj(<< <<F_Label, JStr(<<"B">>)>>, <<F_Extra, JTrue>> >>) >>)

\* a text that is not JSON: a descriptor cut short
InvalidText == <<"[", "{", "\"", "U", "u", "i", "d", "\"", ":">>

\* the texts the file at a descriptor path can hold: the descriptor its
\* author wrote (by json.dump with indent 4 or 2), or the text cut short
DescriptorTexts(p) ==
    { IF p[2] = N_b_json THEN Dumps(Descriptor2, PrettyIndent, 0)
                         ELSE Dumps(Descriptor1, IndexIndent, 0),
      InvalidText }

\* a tree: notes.txt, and any of the descriptor paths with any of its texts
IndexTrees ==
    UNION { { [p \in P \cup {NotesPath} |->
                 IF p = NotesPath THEN <<"h","i">> ELSE g[p]] :
              g \in { h \in [P -> UNION { DescriptorTexts(q) : q \in P }] :
                        \A q \in P : h[q] \in DescriptorTexts(q) } } :
            P \in SUBSET DescriptorPaths }

IndexInit ==
    /\ fs \in IndexTrees
    /\ ipc = "idle"
    /\ index = <<>>
    /\ iruns = 0
    /\ istart = fs
    /\ iorder = <<>>

IndexOff ==
    /\ ipc = "off"
    /\ index = <<>>
    /\ iruns = 0
    /\ istart = <<>>
    /\ iorder = <<>>

\* main(): process_json_files(input_directory, base_url), then
\* json.dump(index, f, indent=4) into index.json, created or overwritten.
\* When process_json_files raises, main ends with a traceback: nothing is
\* returned and index.json is not written.
IdxMain ==
    /\ iruns < MaxIndexRuns
    /\ iruns' = iruns + 1
    /\ LET loaded == LoadAll(fs)
       IN  \E order \in WalkOrders(DOMAIN fs) :
          LET r == ProcessFiles(loaded, order, <<>>)
          IN  /\ iorder' = order
              /\ IF r.raised
                 THEN /\ index' = <<>>
                      /\ ipc' = "crashed"
                      /\ UNCHANGED fs
                 ELSE /\ index' = r.index
                      /\ ipc' = "done"
                      /\ fs' = [p \in DOMAIN fs \cup {IndexPath} |->
                                   IF p = IndexPath
                                   THEN Dumps(JArr(r.index), IndexIndent, 0)
                                   ELSE fs[p]]
    /\ istart' = fs
    /\ UNCHANGED <<camelVars, deepVars, hashVars, normVars>>

IndexNext == IdxMain

\* --- C1 ----------------------------------------------------------------
\* C1: the index process_json_files builds never holds an entry made from
\* the file index.json at the scan root, also when main runs a second time
\* over the directory its first run wrote index.json into.
C1_SelfExclusion ==
    \A i \in DOMAIN index :
        /\ DictGet(index[i].v, E_Url) # JStr(UrlOf(IndexPath))
        /\ ~(DictGet(index[i].v, E_Name) = JStr(<<"i","n","d","e","x">>)
               /\ EndsWith(DictGet(index[i].v, E_Url).v, <<"/">> \o N_index_json)
               /\ Len(DictGet(index[i].v, E_Url).v) = Len(UrlOf(IndexPath)))

\* --- C2 ----------------------------------------------------------------
\* the *.json files of a tree
JsonFiles(tree) == { p \in DOMAIN tree : EndsWith(p[2], Ext_json) }

\* the file is a valid descriptor: a JSON list whose first element is an object
IsDescriptor(tree, p) ==
    LET r == parse_json(tree[p])
    IN  r.ok /\ r.val.t = "arr" /\ r.val.v # <<>> /\ r.val.v[1].t = "obj"

\* the file is syntactically invalid JSON
IsInvalidJson(tree, p) == ~parse_json(tree[p]).ok

\* every *.json file of the tree is invalid JSON or a valid descriptor
OnlyInvalidOrDescriptors(tree) ==
    \A p \in JsonFiles(tree) : IsDescriptor(tree, p) \/ IsInvalidJson(tree, p)

\* C2: over a tree whose *.json files are each invalid JSON or a valid
\* descriptor, process_json_files ends normally, and the index it returns
\* holds exactly one entry for each valid descriptor and none for an
\* invalid file, wherever the invalid files come in the traversal.
C2_PartialFailureIsolation ==
    (ipc \in {"done", "crashed"} /\ OnlyInvalidOrDescriptors(istart)) =>
        LET valid == { p \in JsonFiles(istart) : IsDescriptor(istart, p) }
        IN  /\ ipc = "done"
            /\ Len(index) = Cardinality(valid)
            /\ { DictGet(index[i].v, E_Url) : i \in DOMAIN index }
                 = { JStr(UrlOf(p)) : p \in valid }

\* a finished run that met an invalid file before a valid descriptor
C2_Witness ==
    /\ ipc = "done"
    /\ OnlyInvalidOrDescriptors(istart)
    /\ \E i, j \in DOMAIN iorder :
          /\ i < j
          /\ iorder[i] \in JsonFiles(istart) /\ IsInvalidJson(istart, iorder[i])
          /\ iorder[j] \in JsonFiles(istart) /\ IsDescriptor(istart, iorder[j])
    /\ Len(index) >= 1

(***************************************************************************)
(* convert_repo.py: read_json_text, find_json_files and main               *)
(***************************************************************************)
\* the character U+FEFF
BOM == "<U+FEFF>"

\* text.lstrip("﻿") when the text starts with a BOM
RECURSIVE read_json_text(_)
read_json_text(raw) ==
    IF raw # <<>> /\ raw[1] = BOM THEN read_json_text(Tail(raw)) ELSE raw

D_git == <<".","g","i","t">>
D_node_modules == <<"n","o","d","e","_","m","o","d","u","l","e","s">>
D_dist == <<"d","i","s","t">>
D_build == <<"b","u","i","l","d">>
D_out == <<"o","u","t">>
D_venv == <<".","v","e","n","v">>
D_mypy_cache == <<".","m","y","p","y","_","c","a","c","h","e">>
D_pytest_cache == <<".","p","y","t","e","s","t","_","c","a","c","h","e">>

\* the default of --exclude
DefaultExcludes ==
    { D_git, D_node_modules, D_dist, D_build, D_out, D_venv, D_mypy_cache,
      D_pytest_cache }

should_skip_dir(dir_name, excludes) == dir_name \in excludes

\* the files find_json_files collects: not under an excluded directory,
\* with a name that ends in ".json" whatever its case
find_json_files(tree, excludes) ==
    { p \in DOMAIN tree :
        /\ ~should_skip_dir(p[1], excludes)
        /\ EndsWith(Lower(p[2]), Ext_json) }

\* src.with_suffix(src.suffix + ".bak")
BackupPath(src) == << src[1], Stem(src[2]) \o Suffix(src[2]) \o Ext_bak >>

\* tree with the file at path p holding text
WriteFile(tree, p, text) ==
    [q \in DOMAIN tree \cup {p} |-> IF q = p THEN text ELSE tree[q]]

\* a faulty BackupNeeded: the backup is made over an existing one
BackupNeededAlways(tree, backup_path, no_backup) == ~no_backup

\* `if not args.no_backup:` ... `if not backup_path.exists():`
BackupNeeded(tree, backup_path, no_backup) ==
    ~no_backup /\ backup_path \notin DOMAIN tree

\* the end of the loop body, for a file whose text changes: the backup
\* (shutil.copy2 of the file as it is on disk), then src.write_text.
\* io names the call that raises for this file, if any.
Rewrite(tree, src, new_text, no_backup, io) ==
    LET backup_path == BackupPath(src)
        copy == BackupNeeded(tree, backup_path, no_backup)
        backed == IF copy THEN WriteFile(tree, backup_path, tree[src]) ELSE tree
    IN  IF copy /\ io = "copy"
        THEN [tree |-> tree, result |-> "failed", raised |-> "copy"]
        ELSE IF io = "write"
        THEN [tree |-> backed, result |-> "failed", raised |-> "write"]
        ELSE [tree |-> WriteFile(backed, src, new_text), result |-> "changed",
              raised |-> "none"]

T_snake == <<"{", "\"">> \o K_user_id \o <<"\"", ":", "1", "}">>
T_camel == dump_json_pretty(JObj(<< <<K_userId, V_1>> >>))
T_cut == <<"{", "\"">>
T_bom == <<BOM>> \o <<"{", "\"">> \o K_Id \o <<"\"", ":", "1", "}">>

\* a snake_case key, the same converted, a text that does not parse, and
\* a PascalCase key behind a BOM
SourceTexts == {T_snake, T_camel, T_cut, T_bom}

\* parse_json, camelize_keys_deep and dump_json_pretty in turn, as the loop
\* body calls them on the text it read: whether the text parses, the text
\* as read and the text to write
NormalizeParsed(original_text, parsed) ==
    [ok |-> parsed.ok,
     original_text |-> original_text,
     new_text |-> IF parsed.ok
                  THEN dump_json_pretty(camelize_keys_deep(parsed.val))
                  ELSE <<>>]

NormalizeText(original_text) ==
    NormalizeParsed(original_text, parse_json(original_text))

\* the same from the text of the file on disk, read_json_text first
Normalize(raw) == NormalizeText(read_json_text(raw))

\* the texts a file of the model can hold: the authors' and the tool's
KnownTexts == SourceTexts \cup { Normalize(raw).new_text : raw \in SourceTexts }

\* Normalize of the texts of the model, computed once
NormalizeTable == [raw \in KnownTexts |-> Normalize(raw)]

\* a faulty Update: --dry-run is not looked at
UpdateNoDryRun(tree, src, n, dry_run, no_backup, io) ==
    IF ~n.ok
    THEN [tree |-> tree, result |-> "failed", raised |-> "parse"]
    ELSE IF n.new_text = n.original_text
    THEN [tree |-> tree, result |-> "skipped", raised |-> "none"]
    ELSE Rewrite(tree, src, n.new_text, no_backup, io)

\* the loop body after the text of src was read, n being Normalize of it:
\* [tree, result, raised], result being the counter the file goes to and
\* raised the call whose exception was caught ("parse": the text does not
\* parse; io = "copy", "write"), "none" if none was
Update(tree, src, n, dry_run, no_backup, io) ==
    IF ~n.ok
    THEN [tree |-> tree, result |-> "failed", raised |-> "parse"]
    ELSE IF n.new_text = n.original_text
    THEN [tree |-> tree, result |-> "skipped", raised |-> "none"]
    ELSE IF dry_run
    THEN [tree |-> tree, result |-> "changed", raised |-> "none"]
    ELSE Rewrite(tree, src, n.new_text, no_backup, io)

\* the body of main's loop for the file src (io = "read": read_text raises)
ConvertOne(tree, src, dry_run, no_backup, io) ==
    IF io = "read" THEN [tree |-> tree, result |-> "failed", raised |-> "read"]
    ELSE Update(tree, src, NormalizeTable[tree[src]], dry_run, no_backup, io)

\* the tree the loop has reached: log holds <<file, what ConvertOne made>>
\* for the files done
TreeAfter(tree, log) == IF log = <<>> THEN tree ELSE log[Len(log)][2].tree

\* the loop `for src in json_files` from the tree at the start of the run,
\* io giving for each file the call that raises ("ok": none)
RECURSIVE ConvertAll(_, _, _, _, _, _)
ConvertAll(tree, json_files, dry_run, no_backup, io, log) ==
    IF json_files = <<>> THEN log
    ELSE ConvertAll(tree, Tail(json_files), dry_run, no_backup, io,
                    Append(log, << Head(json_files),
                                   ConvertOne(TreeAfter(tree, log), Head(json_files),
                                              dry_run, no_backup,
                                              io[Head(json_files)]) >>))

\* the number of files of the log with the given result
Count(log, result) ==
    Cardinality({ i \in DOMAIN log : log[i][2].result = result })

\* a faulty ExitCode: failures are not reported
ExitCodeZero(n_failed) == 0

\* return 0 if failed == 0 else 2
ExitCode(n_failed) == IF n_failed = 0 THEN 0 ELSE 2

(***************************************************************************)
(* Specification SpecNorm: runs of the normalizer's main over a repository,*)
(* with any flags, and edits of the source files between the runs.         *)
(***************************************************************************)
\* runs and edits together
MaxSteps == 3

N_B_JSON == <<"B",".","J","S","O","N">>
N_x_json == <<"x">> \o Ext_json
D_data == <<"d","a","t","a">>

\* the JSON files the authors edit
SourcePaths == { << <<>>, N_a_json >>, << D_data, N_B_JSON >> }

\* a vendored file and a file that is no JSON file
VendorPath == << D_node_modules, N_x_json >>

\* what the repo_root argument of a run names
RootKinds == {"dir", "file", "missing"}

\* per run, the call that raises for each file ("ok": none): at most one
\* file of a run meets an I/O error
IoChoices(files) ==
    { [f \in files |-> "ok"] }
      \cup { [f \in files |-> IF f = g THEN k ELSE "ok"] :
               g \in files, k \in {"read", "copy", "write"} }

NormInit ==
    /\ fs \in { [p \in SourcePaths \cup {VendorPath, NotesPath} |->
                   IF p \in SourcePaths THEN g[p]
                   ELSE IF p = VendorPath THEN T_snake
                   ELSE <<"h","i">>] :
                g \in [SourcePaths -> SourceTexts] }
    /\ npc = "idle"
    /\ rc = 0
    /\ total = 0
    /\ changed = 0
    /\ skipped = 0
    /\ failed = 0
    /\ dryRun = FALSE
    /\ noBackup = FALSE
    /\ rootKind = "dir"
    /\ nsteps = 0
    /\ nstart = fs
    /\ nlog = <<>>
    /\ nbacked = <<>>
    /\ nfirst = <<>>
    /\ nplain = TRUE

NormOff ==
    /\ npc = "off"
    /\ rc = 0
    /\ total = 0
    /\ changed = 0
    /\ skipped = 0
    /\ failed = 0
    /\ dryRun = FALSE
    /\ noBackup = FALSE
    /\ rootKind = "dir"
    /\ nsteps = 0
    /\ nstart = <<>>
    /\ nlog = <<>>
    /\ nbacked = <<>>
    /\ nfirst = <<>>
    /\ nplain = TRUE

\* main(argv) with a repo_root that does not exist or is no directory:
\* the error is printed and 1 returned, before find_json_files
NormMainBadRoot ==
    /\ npc \in {"idle", "done"}
    /\ nsteps < MaxSteps
    /\ \E kind \in RootKinds \ {"dir"}, dry \in BOOLEAN, nobak \in BOOLEAN :
          /\ dryRun' = dry
          /\ noBackup' = nobak
          /\ rootKind' = kind
    /\ rc' = 1
    /\ total' = 0 /\ changed' = 0 /\ skipped' = 0 /\ failed' = 0
    /\ nsteps' = nsteps + 1
    /\ nstart' = fs
    /\ nlog' = <<>>
    /\ npc' = "done"
    /\ UNCHANGED <<fs, nbacked, nfirst, nplain>>
    /\ UNCHANGED <<camelVars, deepVars, hashVars, idxVars>>

\* the end of a run of main that started on the tree fs, log being what the
\* loop made of each file: the tree, the counters of the summary and the
\* return code (and the history of the run)
NormFinish(log, json_files, dry, nobak) ==
    /\ dryRun' = dry
    /\ noBackup' = nobak
    /\ fs' = TreeAfter(fs, log)
    /\ total' = Len(json_files)
    /\ changed' = Count(log, "changed")
    /\ skipped' = Count(log, "skipped")
    /\ failed' = Count(log, "failed")
    /\ rc' = ExitCode(Count(log, "failed"))
    /\ nlog' = [f \in { log[i][1] : i \in DOMAIN log } |->
                  LET i == CHOOSE j \in DOMAIN log : log[j][1] = f
                  IN  [result |-> log[i][2].result, raised |-> log[i][2].raised]]
    /\ LET backedUp == { f \in { log[i][1] : i \in DOMAIN log } :
                           BackupPath(f) \in DOMAIN fs' \ DOMAIN fs }
       IN  nbacked' = [f \in DOMAIN nbacked \cup backedUp |->
                         IF f \in DOMAIN nbacked THEN nbacked[f] ELSE fs[f]]
    /\ LET rewritten == { log[i][1] : i \in { j \in DOMAIN log :
                              log[j][2].result = "changed" /\ ~dry } }
       IN  nfirst' = [f \in DOMAIN nfirst \cup rewritten |->
                        IF f \in DOMAIN nfirst THEN nfirst[f] ELSE fs[f]]
    /\ nplain' = (nplain /\ ~dry /\ ~nobak)

\* main(argv) with repo_root the repository: find_json_files, the loop over
\* the files, the summary and the return code
NormMain ==
    /\ npc \in {"idle", "done"}
    /\ nsteps < MaxSteps
    /\ LET json_files == find_json_files(fs, DefaultExcludes)
       IN
       \E order \in WalkOrders(json_files), io \in IoChoices(json_files) :
       \E dry \in BOOLEAN, nobak \in BOOLEAN :
          NormFinish(ConvertAll(fs, order, dry, nobak, io, <<>>), order, dry, nobak)
    /\ nsteps' = nsteps + 1
    /\ nstart' = fs
    /\ npc' = "done"
    /\ rootKind' = "dir"
    /\ UNCHANGED <<camelVars, deepVars, hashVars, idxVars>>

\* before a run, an author replaces the text of a source file; the
\* process of the last run is gone, with its counters
NormEdit ==
    /\ npc \in {"idle", "done"}
    /\ nsteps + 1 < MaxSteps
    /\ \E p \in SourcePaths, t \in SourceTexts :
          /\ fs[p] # t
          /\ fs' = WriteFile(fs, p, t)
    /\ nsteps' = nsteps + 1
    /\ npc' = "idle"
    /\ rc' = 0
    /\ total' = 0 /\ changed' = 0 /\ skipped' = 0 /\ failed' = 0
    /\ dryRun' = FALSE
    /\ noBackup' = FALSE
    /\ rootKind' = "dir"
    /\ nstart' = fs'
    /\ nlog' = <<>>
    /\ UNCHANGED <<nbacked, nfirst, nplain>>
    /\ UNCHANGED <<camelVars, deepVars, hashVars, idxVars>>

NormNext == NormMainBadRoot \/ NormMain \/ NormEdit

(***************************************************************************)
(* C4, C5 and C8: the runs of the normalizer                               *)
(***************************************************************************)
\* the last run left every backup it found as it was
BackupsKept ==
    \A f \in SourcePaths :
        BackupPath(f) \in DOMAIN nstart =>
            /\ BackupPath(f) \in DOMAIN fs
            /\ fs[BackupPath(f)] = nstart[BackupPath(f)]

C5_DryRunFrame == (npc = "done" /\ dryRun) => fs = nstart

\* a dry run without --no-backup over a file that would change and a file
\* that does not parse
C5_Witness ==
    /\ npc = "done" /\ dryRun /\ ~noBackup /\ rootKind = "dir"
    /\ changed >= 1
    /\ \E f \in DOMAIN nlog : nlog[f].raised = "parse"

\* C8: a run over a directory puts every file find_json_files returns in
\* exactly one of changed, skipped and failed, and returns 0 if and only
\* if no call raised for any file; a run whose root is no directory
\* returns non-zero with no file read or written.
C8_CompletionStatus ==
    npc = "done" =>
        IF rootKind = "dir"
        THEN /\ DOMAIN nlog = find_json_files(nstart, DefaultExcludes)
             /\ total = Cardinality(DOMAIN nlog)
             /\ changed + skipped + failed = total
             /\ changed = Cardinality({f \in DOMAIN nlog : nlog[f].result = "changed"})
             /\ skipped = Cardinality({f \in DOMAIN nlog : nlog[f].result = "skipped"})
             /\ failed = Cardinality({f \in DOMAIN nlog : nlog[f].result = "failed"})
             /\ (rc = 0) <=> (\A f \in DOMAIN nlog : nlog[f].raised = "none")
        ELSE /\ rc # 0
             /\ nlog = <<>>
             /\ fs = nstart

\* a run over a directory in which the first file raised and the file
\* after it was still converted
C8_Witness ==
    /\ npc = "done" /\ rootKind = "dir" /\ rc = 2
    /\ nlog[<< <<>>, N_a_json >>].raised # "none"
    /\ nlog[<< D_data, N_B_JSON >>].result = "changed"
    /\ fs[<< D_data, N_B_JSON >>] # nstart[<< D_data, N_B_JSON >>]

(***************************************************************************)
(* The specifications: one per tool or function, the others switched off   *)
(***************************************************************************)
NoTree == fs = <<>>

InitCamel == CamelInit /\ DeepOff /\ HashOff /\ NoTree /\ IndexOff /\ NormOff
SpecCamel == InitCamel /\ [][CamelNext]_vars

InitDeep == DeepInit /\ CamelOff /\ HashOff /\ NoTree /\ IndexOff /\ NormOff
SpecDeep == InitDeep /\ [][DeepNext]_vars

InitHash == HashInit /\ CamelOff /\ DeepOff /\ NoTree /\ IndexOff /\ NormOff
SpecHash == InitHash /\ [][HashNext]_vars

InitIndex == IndexInit /\ CamelOff /\ DeepOff /\ HashOff /\ NormOff
SpecIndex == InitIndex /\ [][IndexNext]_vars

InitNorm == NormInit /\ CamelOff /\ DeepOff /\ HashOff /\ IndexOff
SpecNorm == InitNorm /\ [][NormNext]_vars

=============================================================================
